---- MODULE Spec2Model ----
(***************************************************************************)
(* State-machine model of src/train_joint.py: the joint scene + camera     *)
(* pose optimisation loop (training), its pose export (save_pose), its     *)
(* reporting hook (training_report) and the command-line entry point.      *)
(*                                                                         *)
(* One behaviour is one process running training() to its end, to an       *)
(* uncaught exception, or to an interruption, optionally followed by a new *)
(* process started with --start_checkpoint on a raw checkpoint the earlier *)
(* process left on disk.                                                   *)
(***************************************************************************)
EXTENDS Integers, Sequences, FiniteSets, TLC

VARIABLES
    args,            \* parsed command line (Namespace), incl. the iteration lists
    cams,            \* the scene's training views, in list order: (colmap_id, uid)
    test_cameras,    \* scene.getTestCameras(): the held-out views, possibly none
    pc,              \* position of the process inside training()
    run,             \* number of processes started after the first one
    first_iter,      \* training(): first_iter
    iteration,       \* training(): loop variable
    train_cameras,   \* scene.getTrainCameras() (= train_cams_init)
    gaussians,       \* the GaussianModel: parameters, gradients, optimizer, SH degree
    viewpoint_stack, \* the pool of views not yet sampled (None = <<>>)
    viewpoint_cam,   \* the view sampled in this iteration (<<>> before the first)
    pose,            \* gaussians.get_RT(viewpoint_cam.uid)
    loss,            \* the loss of this iteration, as the renderer's inputs
    disk,            \* files under scene.model_path
    trace,           \* what this iteration has done so far, in order
    events,          \* scheduled side effects of this process, in order
    n_step,          \* optimizer.step() calls of this process
    window,          \* uids sampled by this process in its last N iterations
    live,            \* per raw checkpoint: the process state when it was written
    prev,            \* parameters and files at the end of the previous iteration
    abort_cause,     \* what raised, once pc = "aborted"
    scalars          \* validation scalars this process gave to the event writer

vars == <<args, cams, test_cameras, pc, run, first_iter, iteration,
          train_cameras, gaussians,
          viewpoint_stack, viewpoint_cam, pose, loss, disk, trace, events,
          n_step, window, live, prev, abort_cause, scalars>>

(***************************************************************************)
(* Bounds of the model.                                                    *)
(***************************************************************************)
MaxViews == 2
MaxIterations == 3
MaxRestarts == 1
MaxTest == 1
SHTotal == 3001

(***************************************************************************)
(* Program constants.                                                      *)
(***************************************************************************)
SHInterval == 1000
VizInterval == 100
DefaultShDegree == 3

(***************************************************************************)
(* Helpers.                                                                *)
(***************************************************************************)
\* Python's `x in list`.
In(x, list) == \E k \in DOMAIN list : list[k] = x

\* Python's list.pop(k) result and remainder, k 1-based here.
RemoveAt(list, k) == [j \in 1..(Len(list) - 1) |-> IF j < k THEN list[j] ELSE list[j + 1]]

Abs(x) == IF x < 0 THEN -x ELSE x

RECURSIVE GCD(_, _)
GCD(a, b) == IF b = 0 THEN a ELSE GCD(b, a % b)

Count(seq, x) == Cardinality({k \in DOMAIN seq : seq[k] = x})

\* All orderings of a finite set, as sequences.
Orderings(S) == {f \in [1..Cardinality(S) -> S] : \A a \in S : \E k \in DOMAIN f : f[k] = a}

\* Python's list.index(x), 1-based here; 0 stands for ValueError.
IndexOf(list, x) == IF In(x, list) THEN CHOOSE k \in DOMAIN list : list[k] = x /\ \A j \in 1..(k - 1) : list[j] # x ELSE 0

VecAdd(u, v) == [k \in DOMAIN u |-> u[k] + v[k]]

(***************************************************************************)
(* Pose parameterisation (instant_splat.utils.pose_utils).  A pose vector  *)
(* is <<w, z, t>>: a rotation about one axis as the pair (w, z) of a       *)
(* quaternion, not necessarily of unit norm, and a translation t.  The     *)
(* transform is the rotation (cos, sin) = (w^2 - z^2, 2wz) / (w^2 + z^2),  *)
(* kept as a reduced fraction, with the translation.                       *)
(***************************************************************************)
get_camera_from_tensor(q) ==
    LET a == q[1] * q[1] - q[2] * q[2]
        b == 2 * q[1] * q[2]
        n == q[1] * q[1] + q[2] * q[2]
        g == GCD(GCD(Abs(a), Abs(b)), n)
    IN  <<a \div g, b \div g, n \div g, q[3]>>

\* The pose vector the dataset bootstraps for the view with original id c.
InitPose(c) == <<c, 1, c>>

\* What one backward pass adds to the gradient of the rendered pose row,
\* and to the gradient of the scene parameters.
PoseGrad == <<0, 1, 1>>
SceneGrad(uid) == uid + 1

(***************************************************************************)
(* The scene model (instant_splat.scene: GaussianModel, Scene).            *)
(***************************************************************************)
Uids(c) == {c[k].uid : k \in DOMAIN c}

\* GaussianModel(sh_degree) + Scene(...) + training_setup(opt): the pose
\* table holds, per view identifier, that view's bootstrap pose vector.
NewGaussians(sh_degree, c) ==
    [xyz |-> 0,
     P |-> [u \in Uids(c) |-> InitPose((CHOOSE cam \in {c[k] : k \in DOMAIN c} : cam.uid = u).colmap_id)],
     P_requires_grad |-> TRUE,
     grad_xyz |-> <<>>,
     grad_P |-> <<>>,
     opt_step |-> 0,
     lr_iter |-> 0,
     active_sh_degree |-> 0,
     max_sh_degree |-> sh_degree]

\* gaussians.capture(): all parameters, the optimizer state, the SH degree.
Capture(g) == [xyz |-> g.xyz, P |-> g.P, opt_step |-> g.opt_step,
               active_sh_degree |-> g.active_sh_degree]

\* gaussians.restore(model_params, opt)
Restore(g, m) == [g EXCEPT !.xyz = m.xyz, !.P = m.P, !.opt_step = m.opt_step,
                           !.active_sh_degree = m.active_sh_degree]

\* gaussians.oneupSHdegree(): one more level, saturating at the maximum.
oneupSHdegree(g) ==
    IF g.active_sh_degree < g.max_sh_degree
    THEN [g EXCEPT !.active_sh_degree = @ + 1]
    ELSE g

\* gaussians.get_RT(uid): the row of the pose table keyed by the identifier.
get_RT(g, uid) == g.P[uid]

\* loss.backward(): gradients accumulate on the scene parameters and, when
\* the pose table requires gradients, on the row that was rendered.
Backward(g, uid) ==
    LET zero == [u \in DOMAIN g.P |-> <<0, 0, 0>>]
        old == IF g.grad_P = <<>> THEN zero ELSE g.grad_P[1]
    IN  [g EXCEPT !.grad_xyz = <<(IF @ = <<>> THEN 0 ELSE @[1]) + SceneGrad(uid)>>,
                  !.grad_P = IF g.P_requires_grad
                             THEN <<[old EXCEPT ![uid] = VecAdd(@, PoseGrad)]>>
                             ELSE @]

\* optimizer.step(): a parameter whose gradient is None is skipped.
Step(g) ==
    [g EXCEPT !.xyz = IF g.grad_xyz = <<>> THEN @ ELSE @ + g.grad_xyz[1],
              !.P = IF g.grad_P = <<>> THEN @
                    ELSE [u \in DOMAIN g.P |-> VecAdd(g.P[u], g.grad_P[1][u])],
              !.opt_step = @ + 1]

\* optimizer.zero_grad(set_to_none=True)
ZeroGrad(g) == [g EXCEPT !.grad_xyz = <<>>, !.grad_P = <<>>]

(***************************************************************************)
(* save_pose(path, quat_pose, train_cams)                                  *)
(***************************************************************************)
index_colmap(train_cams) == [k \in DOMAIN train_cams |-> train_cams[k].colmap_id]

\* An export that accepts an empty list of views.
save_pose_raises_AcceptsEmpty(quat_pose, train_cams) ==
    \E i \in 1..Len(train_cams) :
       \/ ~In(i, index_colmap(train_cams))
       \/ (IndexOf(index_colmap(train_cams), i) - 1) \notin DOMAIN quat_pose

\* index_colmap.index(i + 1) raises ValueError, output_poses[ind] raises
\* IndexError, torch.stack([]) raises RuntimeError.
save_pose_raises(quat_pose, train_cams) ==
    \/ Len(train_cams) = 0
    \/ \E i \in 1..Len(train_cams) :
          \/ ~In(i, index_colmap(train_cams))
          \/ (IndexOf(index_colmap(train_cams), i) - 1) \notin DOMAIN quat_pose

\* The array np.save writes: row i - 1 is output_poses[index_colmap.index(i)],
\* and output_poses[k] is the transform of quat_pose[k].
save_pose(quat_pose, train_cams) ==
    [i \in 1..Len(train_cams) |->
        get_camera_from_tensor(quat_pose[IndexOf(index_colmap(train_cams), i) - 1])]

(***************************************************************************)
(* __main__: the command line is parsed and the total iteration count is   *)
(* appended to the save list; nothing of training() has run yet.           *)
(***************************************************************************)
NoDisk == [pose_org |-> <<>>, pose |-> <<>>, scene |-> <<>>, chkpnt |-> <<>>]

\* A save list that is used as the user gave it.
SaveList_AsGiven(save, total) == save

\* line 394: args.save_iterations.append(args.iterations)
SaveList(save, total) == Append(save, total)

Main(c, t, total, test, save, chk, optim, sh) ==
    /\ args = [iterations |-> total,
               test_iterations |-> test,
               save_iterations |-> SaveList(save, total),
               checkpoint_iterations |-> chk,
               start_checkpoint |-> <<>>,
               optim_pose |-> optim,
               sh_degree |-> sh]
    /\ cams = c
    /\ test_cameras = t
    /\ pc = "start"
    /\ run = 0
    /\ first_iter = 0
    /\ iteration = 0
    /\ train_cameras = <<>>
    /\ gaussians = NewGaussians(sh, c)
    /\ viewpoint_stack = <<>>
    /\ viewpoint_cam = <<>>
    /\ pose = <<>>
    /\ loss = <<>>
    /\ disk = NoDisk
    /\ trace = <<>>
    /\ events = <<>>
    /\ n_step = 0
    /\ window = <<>>
    /\ live = <<>>
    /\ prev = [params |-> Capture(NewGaussians(sh, c)), disk |-> NoDisk]
    /\ abort_cause = "none"
    /\ scalars = <<>>

\* Scene(dataset, gaussians, shuffle=True): n views with original ids 1..n in
\* any list order, each with its position in the list as identifier.
SceneCameras(n) ==
    {[k \in 1..n |-> [colmap_id |-> o[k], uid |-> k - 1]] : o \in Orderings(1..n)}

\* The same views under every assignment of the identifiers 0..n-1.
SceneCamerasAnyUid(n) ==
    {[k \in 1..n |-> [colmap_id |-> o[k], uid |-> u[k]]] :
        o \in Orderings(1..n), u \in Orderings(0..(n - 1))}

\* n views whose original ids are any values of 1..n+1: some value of 1..n may
\* be missing and some id may be there twice.
SceneCamerasAnyColmapId(n) ==
    {[k \in 1..n |-> [colmap_id |-> o[k], uid |-> k - 1]] : o \in [1..n -> 1..(n + 1)]}

\* The iteration lists passed on the command line: none, or the first and
\* the last iteration.
Schedules(total) == {<<>>, <<1, total>>}

Init ==
    \E n \in 1..MaxViews, total \in 1..MaxIterations, optim \in BOOLEAN :
      \E c \in SceneCameras(n) :
        \E test \in {<<>>, <<total>>, <<1, total>>}, save \in Schedules(total),
           chk \in Schedules(total) :
          Main(c, <<>>, total, test, save, chk, optim, DefaultShDegree)

\* scene.getTestCameras(): k held-out views, none when k = 0.
TestCameras(n, k) == [j \in 1..k |-> [colmap_id |-> n + j, uid |-> j - 1]]

\* Runs with a validation sweep, over scenes with and without held-out views.
InitReport ==
    \E n \in 1..MaxViews, k \in 0..MaxTest, total \in 1..MaxIterations :
      \E c \in SceneCameras(n), test \in {<<total>>, <<1, total>>},
         chk \in Schedules(total) :
        Main(c, TestCameras(n, k), total, test, <<>>, chk, TRUE, DefaultShDegree)

\* Scenes of any size, none included, with any original ids.
InitColmap ==
    \E n \in 0..MaxViews, total \in 1..MaxIterations :
      \E c \in SceneCamerasAnyColmapId(n), chk \in Schedules(total) :
        Main(c, <<>>, total, <<>>, <<>>, chk, TRUE, DefaultShDegree)

\* Every assignment of view identifiers to the views.
InitIds ==
    \E n \in 1..MaxViews, total \in 1..MaxIterations :
      \E c \in SceneCamerasAnyUid(n), chk \in Schedules(total) :
        Main(c, <<>>, total, <<>>, <<1>>, chk, TRUE, DefaultShDegree)

\* One view and a run long enough for every SH escalation, with a raw
\* checkpoint at the first escalation.
InitSH ==
    \E sh \in 0..DefaultShDegree :
      Main([k \in 1..1 |-> [colmap_id |-> 1, uid |-> 0]], <<>>, SHTotal, <<>>, <<>>,
           <<SHInterval>>, TRUE, sh)

(***************************************************************************)
(* training(): lines 96-118, everything before the loop.                   *)
(***************************************************************************)
\* A loop that starts at the checkpoint's own iteration.
FirstIteration_NoIncrement(fi) == fi

\* line 118: first_iter += 1
FirstIteration(fi) == fi + 1

Setup ==
    /\ pc = "start"
    /\ LET tc == cams
           fresh == NewGaussians(args.sh_degree, cams)
           ck == IF args.start_checkpoint = <<>> THEN <<>>
                 ELSE <<disk.chkpnt[args.start_checkpoint[1]]>>
           g == IF ck = <<>> THEN fresh ELSE Restore(fresh, ck[1].model_params)
           fi == IF ck = <<>> THEN 0 ELSE ck[1].iteration
       IN  /\ train_cameras' = tc
           /\ gaussians' = g
           /\ IF save_pose_raises(g.P, tc)
              THEN /\ pc' = "aborted"
                   /\ abort_cause' = "save_pose"
                   /\ UNCHANGED <<disk, first_iter, iteration>>
              ELSE /\ disk' = [disk EXCEPT !.pose_org = save_pose(g.P, tc)]
                   /\ first_iter' = FirstIteration(fi)
                   /\ iteration' = FirstIteration(fi) - 1
                   /\ pc' = "loop"
                   /\ UNCHANGED abort_cause
    /\ viewpoint_stack' = <<>>
    /\ UNCHANGED <<args, cams, test_cameras, scalars,
                   run, viewpoint_cam, pose, loss, trace, events,
                   n_step, window, live, prev>>

(***************************************************************************)
(* training(): the loop, lines 125-251.                                    *)
(***************************************************************************)
\* A loop body that steps the optimizer before the point-cloud snapshot.
After_StepBeforeViz(stage) ==
    CASE stage = "prepare" -> "sample"
      [] stage = "sample" -> "camlog"
      [] stage = "camlog" -> "render"
      [] stage = "render" -> "imglog"
      [] stage = "imglog" -> "loss"
      [] stage = "loss" -> "backward"
      [] stage = "backward" -> "report"
      [] stage = "report" -> "save"
      [] stage = "save" -> "step"
      [] stage = "step" -> "viz"
      [] stage = "viz" -> "checkpoint"
      [] stage = "checkpoint" -> "loop"

\* A loop body that writes the raw checkpoint before the optimizer step.
After_CheckpointBeforeStep(stage) ==
    CASE stage = "prepare" -> "sample"
      [] stage = "sample" -> "camlog"
      [] stage = "camlog" -> "render"
      [] stage = "render" -> "imglog"
      [] stage = "imglog" -> "loss"
      [] stage = "loss" -> "backward"
      [] stage = "backward" -> "report"
      [] stage = "report" -> "save"
      [] stage = "save" -> "viz"
      [] stage = "viz" -> "checkpoint"
      [] stage = "checkpoint" -> "step"
      [] stage = "step" -> "loop"

\* A loop body that computes the loss before it renders.
After_LossBeforeRender(stage) ==
    CASE stage = "prepare" -> "sample"
      [] stage = "sample" -> "camlog"
      [] stage = "camlog" -> "loss"
      [] stage = "loss" -> "render"
      [] stage = "render" -> "imglog"
      [] stage = "imglog" -> "backward"
      [] stage = "backward" -> "report"
      [] stage = "report" -> "save"
      [] stage = "save" -> "viz"
      [] stage = "viz" -> "step"
      [] stage = "step" -> "checkpoint"
      [] stage = "checkpoint" -> "loop"

\* The order of the statements of the loop body: what follows each stage.
After(stage) ==
    CASE stage = "prepare" -> "sample"        \* 129-136, then 139-144
      [] stage = "sample" -> "camlog"         \* then 146-157
      [] stage = "camlog" -> "render"         \* then 160-177
      [] stage = "render" -> "imglog"         \* then 180-195
      [] stage = "imglog" -> "loss"           \* then 196-199
      [] stage = "loss" -> "backward"         \* then 200-211
      [] stage = "backward" -> "report"       \* then 214-225
      [] stage = "report" -> "save"           \* then 226-233
      [] stage = "save" -> "viz"              \* then 235-236
      [] stage = "viz" -> "step"              \* then 239-241
      [] stage = "step" -> "checkpoint"       \* then 243-248
      [] stage = "checkpoint" -> "loop"       \* then 250-251, back to 125

\* line 125: for iteration in range(first_iter, opt.iterations + 1)
LoopHead ==
    /\ pc = "loop"
    /\ IF iteration + 1 <= args.iterations
       THEN /\ iteration' = iteration + 1
            /\ pc' = "prepare"
            /\ trace' = <<>>
            /\ prev' = [params |-> Capture(gaussians), disk |-> disk]
       ELSE /\ pc' = "done"
            /\ UNCHANGED <<iteration, trace, prev>>
    /\ UNCHANGED <<args, cams, test_cameras, scalars,
                   run, first_iter, train_cameras, gaussians,
                   viewpoint_stack, viewpoint_cam, pose, loss, disk, events,
                   n_step, window, live, abort_cause>>

\* A loop that never freezes the pose table.
Freeze_Never(g, optim) == g

\* lines 131-132: if args.optim_pose is False: gaussians.P.requires_grad_(False)
Freeze(g, optim) == IF optim = FALSE THEN [g EXCEPT !.P_requires_grad = FALSE] ELSE g

\* An escalation every 100 iterations.
SHDue_EveryHundred(i) == i % VizInterval = 0

\* line 135: if iteration % 1000 == 0
SHDue(i) == i % SHInterval = 0

\* lines 129-136: learning rate, pose freeze, SH degree
Prepare ==
    /\ pc = "prepare"
    /\ LET g1 == [gaussians EXCEPT !.lr_iter = iteration]
           g2 == Freeze(g1, args.optim_pose)
           g3 == IF SHDue(iteration) THEN oneupSHdegree(g2) ELSE g2
       IN  /\ gaussians' = g3
           /\ trace' = trace \o <<"lr">>
                       \o (IF args.optim_pose = FALSE THEN <<"freeze">> ELSE <<>>)
                       \o (IF SHDue(iteration) THEN <<"sh">> ELSE <<>>)
    /\ pc' = After("prepare")
    /\ UNCHANGED <<args, cams, test_cameras, scalars,
                   run, first_iter, iteration, train_cameras,
                   viewpoint_stack, viewpoint_cam, pose, loss, disk, events,
                   n_step, window, live, prev, abort_cause>>

\* A pool refilled one view too early.
RefillDue_Early(stack) == Len(stack) <= 1

\* line 139: if not viewpoint_stack (None or empty)
RefillDue(stack) == stack = <<>>

\* lines 139-144: refill the pool when it is empty, pop a random view,
\* resolve its pose
SampleView ==
    /\ pc = "sample"
    /\ LET stack == IF RefillDue(viewpoint_stack) THEN train_cameras ELSE viewpoint_stack
       IN  \E r \in 1..Len(stack) :
             /\ viewpoint_cam' = <<stack[r]>>
             /\ viewpoint_stack' = RemoveAt(stack, r)
             /\ pose' = <<get_RT(gaussians, stack[r].uid)>>
             /\ window' = LET w == Append(window, stack[r].uid)
                          IN  IF Len(w) > Len(train_cameras) THEN Tail(w) ELSE w
    /\ trace' = trace \o <<"sample", "pose">>
    /\ pc' = After("sample")
    /\ UNCHANGED <<args, cams, test_cameras, scalars,
                   run, first_iter, iteration, train_cameras,
                   gaussians, loss, disk, events, n_step, live, prev,
                   abort_cause>>

\* lines 146-157: the camera poses go to the visual sink
LogCameras ==
    /\ pc = "camlog"
    /\ trace' = Append(trace, "camlog")
    /\ pc' = After("camlog")
    /\ UNCHANGED <<args, cams, test_cameras, scalars,
                   run, first_iter, iteration, train_cameras,
                   gaussians, viewpoint_stack, viewpoint_cam, pose, loss, disk,
                   events, n_step, window, live, prev,
                   abort_cause>>

\* lines 160-177: background, render with the resolved pose
Render ==
    /\ pc = "render"
    /\ trace' = trace \o <<"bg", "render">>
    /\ pc' = After("render")
    /\ UNCHANGED <<args, cams, test_cameras, scalars,
                   run, first_iter, iteration, train_cameras,
                   gaussians, viewpoint_stack, viewpoint_cam, pose, loss, disk,
                   events, n_step, window, live, prev,
                   abort_cause>>

\* lines 180-195: the rendered and the ground-truth image go to the sink
LogImages ==
    /\ pc = "imglog"
    /\ trace' = Append(trace, "imglog")
    /\ pc' = After("imglog")
    /\ UNCHANGED <<args, cams, test_cameras, scalars,
                   run, first_iter, iteration, train_cameras,
                   gaussians, viewpoint_stack, viewpoint_cam, pose, loss, disk,
                   events, n_step, window, live, prev,
                   abort_cause>>

\* lines 196-199: the loss is a function of the view, the pose it was
\* rendered with and the scene snapshot
Loss ==
    /\ pc = "loss"
    /\ loss' = <<viewpoint_cam[1].uid, pose[1], gaussians.xyz,
                 gaussians.active_sh_degree>>
    /\ trace' = Append(trace, "loss")
    /\ pc' = After("loss")
    /\ UNCHANGED <<args, cams, test_cameras, scalars,
                   run, first_iter, iteration, train_cameras,
                   gaussians, viewpoint_stack, viewpoint_cam, pose, disk,
                   events, n_step, window, live, prev,
                   abort_cause>>

\* lines 200-211: backward pass, loss average, progress bar
BackwardPass ==
    /\ pc = "backward"
    /\ gaussians' = Backward(gaussians, viewpoint_cam[1].uid)
    /\ trace' = trace \o <<"backward", "ema">>
    /\ pc' = After("backward")
    /\ UNCHANGED <<args, cams, test_cameras, scalars,
                   run, first_iter, iteration, train_cameras,
                   viewpoint_stack, viewpoint_cam, pose, loss, disk, events,
                   n_step, window, live, prev, abort_cause>>

\* An uncaught exception ends the process where it is raised.
Abort(cause) ==
    /\ pc' = "aborted"
    /\ abort_cause' = cause
    /\ UNCHANGED <<args, cams, test_cameras, scalars,
                   run, first_iter, iteration, train_cameras,
                   gaussians, viewpoint_stack, viewpoint_cam, pose, loss, disk,
                   trace, events, n_step, window, live, prev>>

\* A snapshot schedule without the first iteration.
VizDue_NotFirst(i) == i % VizInterval = 0

\* line 235: when the point-cloud snapshot is due
VizDue(i) == i % VizInterval = 0 \/ i = 1

\* rr.log raises at lines 152, 183 or 190, or inside log_3d_splats (236):
\* no call site has a handler.
SinkRaises ==
    /\ \/ pc \in {"camlog", "imglog"}
       \/ pc = "viz" /\ VizDue(iteration)
    /\ Abort("sink")

\* render raises (line 167)
RenderRaises == pc = "render" /\ Abort("render")

\* l1_loss or ssim raises (lines 196-199)
LossRaises == pc = "loss" /\ Abort("loss")

\* A failure handler that leaves a raw checkpoint of the failed iteration.
BackwardRaises_SavesCheckpoint ==
    /\ pc = "backward"
    /\ pc' = "aborted"
    /\ abort_cause' = "backward"
    /\ disk' = [disk EXCEPT !.chkpnt = (iteration :>
                    [model_params |-> Capture(gaussians),
                     iteration |-> iteration]) @@ @]
    /\ UNCHANGED <<args, cams, test_cameras, scalars,
                   run, first_iter, iteration, train_cameras,
                   gaussians, viewpoint_stack, viewpoint_cam, pose, loss,
                   trace, events, n_step, window, live, prev>>

\* loss.backward() raises (line 200)
BackwardRaises == pc = "backward" /\ Abort("backward")

\* A sweep that evaluates every validation set, whatever its size.
EvalDue_Always(cameras) == TRUE

\* line 309: if config["cameras"] and len(config["cameras"]) > 0
EvalDue(cameras) == cameras # <<>> /\ Len(cameras) > 0

\* l1_loss(image, gt_image) of one validation view (lines 318-340)
ViewL1(name, viewpoint) == viewpoint.uid + (IF name = "train" THEN 1 ELSE 2)

\* lines 310-341: l1_test = 0.0, then += over the views of the set
RECURSIVE SumL1(_, _)
SumL1(name, cameras) ==
    IF cameras = <<>> THEN 0
    ELSE ViewL1(name, Head(cameras)) + SumL1(name, Tail(cameras))

\* lines 297-306: the two validation sets, held-out views first
validation_configs ==
    << [name |-> "test", cameras |-> test_cameras],
       [name |-> "train", cameras |-> train_cameras] >>

\* lines 342-359: the mean of one set, printed and given to the event writer
Evaluated(config, it) ==
    IF EvalDue(config.cameras)
    THEN << [name |-> config.name, iteration |-> it, views |-> Len(config.cameras),
             l1 |-> SumL1(config.name, config.cameras) \div Len(config.cameras)] >>
    ELSE <<>>

\* lines 214-225 and training_report (277-365)
TrainingReport ==
    /\ pc = "report"
    /\ IF In(iteration, args.test_iterations)
       THEN IF \E k \in DOMAIN validation_configs :
                 /\ EvalDue(validation_configs[k].cameras)
                 /\ Len(validation_configs[k].cameras) = 0
            THEN \* lines 343-344 divide by len(config["cameras"])
                 /\ events' = Append(events, <<"report", iteration>>)
                 /\ trace' = trace \o <<"report", "empty_cache">>
                 /\ pc' = "aborted"
                 /\ abort_cause' = "report"
                 /\ UNCHANGED scalars
            ELSE /\ events' = Append(events, <<"report", iteration>>)
                 /\ trace' = trace \o <<"report", "empty_cache">>
                               \o [k \in 1..Len(Evaluated(validation_configs[1], iteration))
                                     |-> "eval_test"]
                               \o [k \in 1..Len(Evaluated(validation_configs[2], iteration))
                                     |-> "eval_train"]
                               \o <<"empty_cache">>
                 /\ scalars' = scalars \o Evaluated(validation_configs[1], iteration)
                                       \o Evaluated(validation_configs[2], iteration)
                 /\ pc' = After("report")
                 /\ UNCHANGED abort_cause
       ELSE /\ pc' = After("report")
            /\ UNCHANGED <<events, trace, abort_cause, scalars>>
    /\ UNCHANGED <<args, cams, test_cameras, run, first_iter, iteration, train_cameras,
                   gaussians, viewpoint_stack, viewpoint_cam, pose, loss, disk,
                   n_step, window, live, prev>>

\* lines 226-233: scene.save(iteration), then save_pose to pose_<iteration>.npy
SaveScene ==
    /\ pc = "save"
    /\ IF In(iteration, args.save_iterations)
       THEN LET snap == [xyz |-> gaussians.xyz,
                         active_sh_degree |-> gaussians.active_sh_degree]
                d1 == [disk EXCEPT !.scene = (iteration :> snap) @@ @]
            IN  IF save_pose_raises(gaussians.P, train_cameras)
                THEN /\ disk' = d1
                     /\ events' = Append(events, <<"save", iteration>>)
                     /\ trace' = Append(trace, "save")
                     /\ pc' = "aborted"
                     /\ abort_cause' = "save_pose"
                ELSE /\ disk' = [d1 EXCEPT !.pose = (iteration :>
                                     save_pose(gaussians.P, train_cameras)) @@ @]
                     /\ events' = events \o <<<<"save", iteration>>, <<"pose", iteration>>>>
                     /\ trace' = trace \o <<"save", "pose_export">>
                     /\ pc' = After("save")
                     /\ UNCHANGED abort_cause
       ELSE /\ pc' = After("save")
            /\ UNCHANGED <<disk, events, trace, abort_cause>>
    /\ UNCHANGED <<args, cams, test_cameras, scalars,
                   run, first_iter, iteration, train_cameras,
                   gaussians, viewpoint_stack, viewpoint_cam, pose, loss,
                   n_step, window, live, prev>>

\* A point-cloud snapshot that drops the gradients of what it logs.
Log3dSplats_DropsGradients ==
    /\ pc = "viz"
    /\ IF VizDue(iteration)
       THEN /\ events' = Append(events, <<"viz", iteration>>)
            /\ trace' = Append(trace, "viz")
            /\ gaussians' = ZeroGrad(gaussians)
       ELSE UNCHANGED <<events, trace, gaussians>>
    /\ pc' = After("viz")
    /\ UNCHANGED <<args, cams, test_cameras, scalars,
                   run, first_iter, iteration, train_cameras,
                   viewpoint_stack, viewpoint_cam, pose, loss, disk,
                   n_step, window, live, prev, abort_cause>>

\* lines 235-236: log_3d_splats
Log3dSplats ==
    /\ pc = "viz"
    /\ IF VizDue(iteration)
       THEN /\ events' = Append(events, <<"viz", iteration>>)
            /\ trace' = Append(trace, "viz")
       ELSE UNCHANGED <<events, trace>>
    /\ pc' = After("viz")
    /\ UNCHANGED <<args, cams, test_cameras, scalars,
                   run, first_iter, iteration, train_cameras,
                   gaussians, viewpoint_stack, viewpoint_cam, pose, loss, disk,
                   n_step, window, live, prev, abort_cause>>

\* A loop that also steps in its last iteration.
StepDue_EveryIteration(i, total) == i <= total

\* lines 238-241: optimizer step and gradient clear, except in the last iteration
StepDue(i, total) == i < total

OptimizerStep ==
    /\ pc = "step"
    /\ IF StepDue(iteration, args.iterations)
       THEN /\ gaussians' = ZeroGrad(Step(gaussians))
            /\ n_step' = n_step + 1
            /\ trace' = trace \o <<"step", "zero_grad">>
       ELSE UNCHANGED <<gaussians, n_step, trace>>
    /\ pc' = After("step")
    /\ UNCHANGED <<args, cams, test_cameras, scalars,
                   run, first_iter, iteration, train_cameras,
                   viewpoint_stack, viewpoint_cam, pose, loss, disk, events,
                   window, live, prev, abort_cause>>

\* lines 243-251: torch.save((gaussians.capture(), iteration), chkpnt<iteration>.pth)
SaveCheckpoint ==
    /\ pc = "checkpoint"
    /\ IF In(iteration, args.checkpoint_iterations)
       THEN /\ disk' = [disk EXCEPT !.chkpnt = (iteration :>
                            [model_params |-> Capture(gaussians),
                             iteration |-> iteration]) @@ @]
            /\ live' = (iteration :> [iteration |-> iteration,
                                      params |-> Capture(gaussians),
                                      viewpoint_stack |-> viewpoint_stack,
                                      train_cameras |-> train_cameras]) @@ live
            /\ events' = Append(events, <<"checkpoint", iteration>>)
            /\ trace' = Append(trace, "checkpoint")
       ELSE UNCHANGED <<disk, live, events, trace>>
    /\ pc' = After("checkpoint")
    /\ UNCHANGED <<args, cams, test_cameras, scalars,
                   run, first_iter, iteration, train_cameras,
                   gaussians, viewpoint_stack, viewpoint_cam, pose, loss,
                   n_step, window, prev, abort_cause>>

(***************************************************************************)
(* A process that ended, raised, or was interrupted between two iterations *)
(* is followed by a new one started with --start_checkpoint on a raw       *)
(* checkpoint found on disk (lines 387, 415, 101-103).  Nothing of the old *)
(* process survives but the files.                                         *)
(***************************************************************************)
Restart ==
    /\ pc \in {"loop", "done", "aborted"}
    /\ run < MaxRestarts
    /\ \E c \in DOMAIN disk.chkpnt :
         args' = [args EXCEPT !.start_checkpoint = <<c>>]
    /\ pc' = "start"
    /\ run' = run + 1
    /\ first_iter' = 0
    /\ iteration' = 0
    /\ train_cameras' = <<>>
    /\ gaussians' = NewGaussians(args.sh_degree, cams)
    /\ viewpoint_stack' = <<>>
    /\ viewpoint_cam' = <<>>
    /\ pose' = <<>>
    /\ loss' = <<>>
    /\ trace' = <<>>
    /\ events' = <<>>
    /\ n_step' = 0
    /\ window' = <<>>
    /\ prev' = [params |-> Capture(NewGaussians(args.sh_degree, cams)), disk |-> disk]
    /\ abort_cause' = "none"
    /\ scalars' = <<>>
    /\ UNCHANGED <<cams, test_cameras, disk, live>>

Next ==
    \/ Setup
    \/ LoopHead
    \/ Prepare
    \/ SampleView
    \/ LogCameras
    \/ Render
    \/ LogImages
    \/ Loss
    \/ BackwardPass
    \/ TrainingReport
    \/ SaveScene
    \/ Log3dSplats
    \/ OptimizerStep
    \/ SaveCheckpoint
    \/ SinkRaises
    \/ RenderRaises
    \/ LossRaises
    \/ BackwardRaises
    \/ Restart

Spec == Init /\ [][Next]_vars

SpecIds == InitIds /\ [][Next]_vars

SpecSH == InitSH /\ [][Next]_vars

SpecLong == (Init \/ InitSH) /\ [][Next]_vars

SpecReport == InitReport /\ [][Next]_vars

SpecColmap == InitColmap /\ [][Next]_vars

(***************************************************************************)
(* Properties.                                                             *)
(***************************************************************************)
Fresh == args.start_checkpoint = <<>>
NViews == Len(cams)
AllUids == Uids(cams)
SeqSet(seq) == {seq[k] : k \in DOMAIN seq}
\* The process has sampled the view of the current iteration.
Sampled == pc \notin {"start", "loop", "prepare", "sample", "done"} /\ In("sample", trace)
\* Number of iterations this process has begun.
Begun == iteration - first_iter + 1

\* C1: in a fresh run the optimizer is stepped, and the gradients then
\* cleared, exactly once in every iteration before the last and never in the
\* last one; at loop exit the step count is total - 1 and the parameters are
\* those the step of iteration total - 1 left.
C1_StepEveryIterationButLast ==
    Fresh =>
      /\ pc = "checkpoint" =>
           LET due == IF iteration < args.iterations THEN 1 ELSE 0
           IN  /\ Count(trace, "step") = due
               /\ Count(trace, "zero_grad") = due
               /\ due = 1 => /\ trace[Len(trace)] = "zero_grad"
                             /\ trace[Len(trace) - 1] = "step"
                             /\ gaussians.grad_xyz = <<>>
                             /\ gaussians.grad_P = <<>>
               /\ n_step = IF iteration < args.iterations THEN iteration ELSE iteration - 1
      /\ pc = "done" =>
           /\ n_step = args.iterations - 1
           /\ gaussians.opt_step = args.iterations - 1
           /\ gaussians.xyz = prev.params.xyz
           /\ gaussians.P = prev.params.P

C1_Witness ==
    /\ Fresh
    /\ pc = "done"
    /\ args.iterations >= 3
    /\ n_step = args.iterations - 1
    /\ gaussians.xyz > 0

\* C2 as claimed: any N consecutive iterations of a process sample N
\* different views.
C2_AnyWindowCoversAllViews ==
    Len(window) = NViews => SeqSet(window) = AllUids

\* C2 amended: the N iterations of a pass (the first N iterations of a
\* process, the next N, ...) sample every view exactly once, and within a
\* pass the pool holds exactly the views the pass has not sampled yet: it is
\* refilled only when empty and a sampled view leaves it.
C2_PassCoversAllViews ==
    Sampled =>
      LET k == Begun % NViews
          m == IF k = 0 THEN NViews ELSE k
          seen == {window[j] : j \in (Len(window) - m + 1)..Len(window)}
          pool == {viewpoint_stack[j].uid : j \in DOMAIN viewpoint_stack}
      IN  /\ Len(window) >= m
          /\ Cardinality(seen) = m
          /\ Len(viewpoint_stack) = NViews - m
          /\ Cardinality(pool) = NViews - m
          /\ seen \cup pool = AllUids
          /\ seen \cap pool = {}
          /\ k = 0 => SeqSet(window) = AllUids /\ viewpoint_stack = <<>>

C2_Witness ==
    /\ Sampled
    /\ NViews >= 2
    /\ Begun = NViews
    /\ SeqSet(window) = AllUids
    /\ viewpoint_stack = <<>>

\* C3: a process resumed from chkpnt<i>.pth enters iteration i + 1 in the
\* state in which the process that wrote the checkpoint entered it: same
\* counter, same parameters, optimizer state and SH degree, same remaining
\* pool of views, hence the same view for the same random draw.
C3_ResumeSameState ==
    (~Fresh /\ pc = "sample" /\ iteration = first_iter) =>
      LET u == live[args.start_checkpoint[1]]
      IN  /\ iteration = u.iteration + 1
          /\ Capture(gaussians) = u.params
          /\ viewpoint_stack = u.viewpoint_stack

\* C4: every row of an exported pose array is the transform of the pose the
\* training loop optimises (get_RT(uid)) for the view with that original id.
C4_ExportRowIsTrainedPose ==
    (pc = "viz" /\ In("pose_export", trace)) =>
      \A k \in DOMAIN train_cameras :
        disk.pose[iteration][train_cameras[k].colmap_id] =
          get_camera_from_tensor(get_RT(gaussians, train_cameras[k].uid))

\* The process is past its set-up (a new process starts at degree 0 and
\* restores the checkpoint's degree before its loop).
C5_InLoop == pc \notin {"start"}
C5_DegreeBounded ==
    /\ gaussians.active_sh_degree <= gaussians.max_sh_degree
    /\ (Fresh /\ C5_InLoop /\ pc # "prepare"
          /\ iteration >= 1000 * gaussians.max_sh_degree)
         => gaussians.active_sh_degree = gaussians.max_sh_degree
    /\ (Fresh /\ C5_InLoop /\ gaussians.max_sh_degree = 3 /\ iteration >= 3001)
         => gaussians.active_sh_degree = 3
C5_DegreeStep ==
    (C5_InLoop /\ C5_InLoop') =>
      \/ gaussians'.active_sh_degree = gaussians.active_sh_degree
      \/ /\ gaussians'.active_sh_degree = gaussians.active_sh_degree + 1
         /\ iteration' = iteration
         /\ iteration % 1000 = 0

\* C5: inside the loop the SH degree never decreases, changes only by one and
\* only in an iteration that is a multiple of 1000, never exceeds the
\* maximum, and in a fresh run has reached the maximum m once iteration
\* 1000 * m has escalated (degree 3 from iteration 3000 on).
C5_ShDegreeSchedule == [](C5_DegreeBounded) /\ [][C5_DegreeStep]_vars

C5_Witness ==
    /\ Fresh
    /\ iteration = 3001
    /\ gaussians.max_sh_degree = 3
    /\ gaussians.active_sh_degree = 3
    /\ pc = "done"

C6_Bit(b) == IF b THEN 1 ELSE 0
C6_Of(kind) == SelectSeq(events, LAMBDA e : e[1] = kind)

\* C6: in every iteration that runs to its end each scheduled trigger has
\* fired once if its own condition holds and not at all otherwise; with 2
\* views, 2 iterations, testing_iterations = [2] and saving_iterations = [2]
\* a fresh run ends with one validation report (at 2), one scene save, one
\* pose export (pose_2.npy) and one optimizer step.
C6_TriggersFireIffDue ==
    /\ (pc = "loop" /\ trace # <<>>) =>
         /\ Count(trace, "report") = C6_Bit(In(iteration, args.test_iterations))
         /\ Count(trace, "save") = C6_Bit(In(iteration, args.save_iterations))
         /\ Count(trace, "pose_export") = C6_Bit(In(iteration, args.save_iterations))
         /\ Count(trace, "checkpoint") = C6_Bit(In(iteration, args.checkpoint_iterations))
         /\ Count(trace, "viz") = C6_Bit(iteration % 100 = 0 \/ iteration = 1)
         /\ In(iteration, args.save_iterations) =>
              iteration \in DOMAIN disk.pose /\ iteration \in DOMAIN disk.scene
         /\ In(iteration, args.checkpoint_iterations) => iteration \in DOMAIN disk.chkpnt
    /\ (Fresh /\ pc = "done" /\ NViews = 2 /\ args.iterations = 2
          /\ args.test_iterations = <<2>> /\ args.save_iterations = <<2>>) =>
         /\ C6_Of("report") = <<<<"report", 2>>>>
         /\ C6_Of("save") = <<<<"save", 2>>>>
         /\ C6_Of("pose") = <<<<"pose", 2>>>>
         /\ DOMAIN disk.pose = {2}
         /\ DOMAIN disk.scene = {2}
         /\ n_step = 1

C6_Witness ==
    /\ Fresh /\ pc = "done" /\ NViews = 2 /\ args.iterations = 2
    /\ args.test_iterations = <<2>> /\ args.save_iterations = <<2>>
    /\ args.checkpoint_iterations = <<1, 2>>
    /\ C6_Of("report") = <<<<"report", 2>>>>
    /\ n_step = 1

\* The side effects of an iteration in their claimed order; 0 for the rest.
C7_Rank(kind) ==
    CASE kind = "backward" -> 1
      [] kind = "report" -> 2
      [] kind = "save" -> 3
      [] kind = "pose_export" -> 4
      [] kind = "viz" -> 5
      [] kind = "step" -> 6
      [] kind = "zero_grad" -> 7
      [] kind = "checkpoint" -> 8
      [] OTHER -> 0

\* C7: the side effects of an iteration come after its backward pass and in
\* the order report, scene save, pose export, point-cloud snapshot, optimizer
\* step, gradient clear, raw checkpoint.
C7_SideEffectOrder ==
    \A b \in DOMAIN trace :
      C7_Rank(trace[b]) > 1 =>
        /\ \E a \in 1..(b - 1) : trace[a] = "backward"
        /\ \A a \in 1..(b - 1) : C7_Rank(trace[a]) < C7_Rank(trace[b])

C7_Witness ==
    /\ pc = "loop"
    /\ \A kind \in {"backward", "report", "save", "pose_export", "viz", "step",
                    "zero_grad", "checkpoint"} : Count(trace, kind) = 1

\* C8: an exception raised by a visual sink call is caught where the call is
\* made, so no process is ever ended by one.
C8_SinkErrorsAreCaught == ~(pc = "aborted" /\ abort_cause = "sink")

C9_NothingDone ==
    (pc = "aborted" /\ abort_cause \in {"render", "loss", "backward"}) =>
      /\ gaussians.xyz = prev.params.xyz
      /\ gaussians.P = prev.params.P
      /\ gaussians.opt_step = prev.params.opt_step
      /\ disk = prev.disk
      /\ \A k \in DOMAIN trace : C7_Rank(trace[k]) <= 1
      /\ \A k \in DOMAIN events : events[k][2] < iteration
      /\ n_step = iteration - first_iter
C9_Terminal == pc = "aborted" => (pc' = "start" /\ run' = run + 1)

\* C9: when the renderer, the loss or the backward pass raises in iteration
\* i the process ends there: iteration i has made no report, save, export,
\* step or checkpoint, parameters and files are those the end of iteration
\* i - 1 left, and the process takes no further step.
C9_FailureEndsRun == [](C9_NothingDone) /\ [][C9_Terminal]_vars

C9_Witness ==
    /\ pc = "aborted"
    /\ abort_cause = "backward"
    /\ iteration = 2
    /\ n_step = 1
    /\ DOMAIN disk.chkpnt = {1}
    /\ gaussians.grad_xyz = <<>>

\* C10: with optim_pose false the pose table requires no gradient from the
\* first iteration's freeze on, before any backward pass, and never gets
\* one; no optimizer step changes a pose entry, so every pose_<iteration>.npy
\* equals pose_org.npy, while the scene parameters do change.
C10_FrozenPoseTable ==
    args.optim_pose = FALSE =>
      /\ (first_iter >= 1 /\ iteration >= first_iter /\ pc # "prepare")
           => gaussians.P_requires_grad = FALSE
      /\ In("backward", trace) => gaussians.P_requires_grad = FALSE
      /\ gaussians.grad_P = <<>>
      /\ gaussians.P = NewGaussians(args.sh_degree, cams).P
      /\ \A i \in DOMAIN disk.pose : disk.pose[i] = disk.pose_org
      /\ (pc = "checkpoint" /\ In("step", trace)) =>
           /\ gaussians.P = prev.params.P
           /\ gaussians.xyz # prev.params.xyz

C10_Witness ==
    /\ args.optim_pose = FALSE
    /\ pc = "done"
    /\ n_step >= 2
    /\ gaussians.xyz >= 2
    /\ args.iterations \in DOMAIN disk.pose
    /\ disk.pose[args.iterations] = disk.pose_org

\* The process has run its set-up to the end (lines 96-118).
SetUp == pc # "start" /\ ~(pc = "aborted" /\ abort_cause = "save_pose" /\ first_iter = 0)

\* C11: in every process, started with or without a checkpoint, the
\* pose_org.npy written before the first iteration holds, in ascending order
\* of the original ids, the transform of each view's initial pose vector.
C11_PoseOrgIsInitialPose ==
    SetUp =>
      /\ Len(disk.pose_org) = NViews
      /\ \A c \in 1..NViews : disk.pose_org[c] = get_camera_from_tensor(InitPose(c))

\* The checkpoint a resumed process was started on.
C12_Stored == disk.chkpnt[args.start_checkpoint[1]].iteration
C12_CounterRange ==
    SetUp =>
      /\ first_iter = IF Fresh THEN 1 ELSE C12_Stored + 1
      /\ first_iter - 1 <= iteration
      /\ iteration <= IF first_iter - 1 > args.iterations THEN first_iter - 1 ELSE args.iterations
      /\ (pc \notin {"loop", "done"} \/ trace # <<>>) => iteration >= first_iter
      /\ (pc = "loop" /\ trace = <<>>) => iteration = first_iter - 1
      /\ pc = "done" => iteration = IF first_iter > args.iterations THEN first_iter - 1
                                    ELSE args.iterations
      /\ (first_iter > args.iterations) => trace = <<>> /\ events = <<>> /\ n_step = 0
C12_CounterStep ==
    (pc # "start" /\ pc' # "start") =>
      /\ first_iter' = first_iter
      /\ \/ iteration' = iteration
         \/ /\ iteration' = iteration + 1
            /\ pc = "loop"
            /\ pc' = "prepare"
            /\ iteration' <= args.iterations

\* C12: the counter of a process takes the values first_iter + 1, ..., total
\* one after the other, each once, and the loop then ends; a process resumed
\* from a checkpoint with counter c starts at c + 1, and runs no iteration
\* when c >= total.
C12_CounterSequence == [](C12_CounterRange) /\ [][C12_CounterStep]_vars

C12_Witness ==
    /\ ~Fresh
    /\ pc = "done"
    /\ first_iter = 2
    /\ iteration = 3
    /\ n_step = 1

C13_Core ==
    {"lr", "freeze", "sh", "sample", "pose", "bg", "render", "loss", "backward", "ema"}
C13_IsCore(kind) == kind \in C13_Core
C13_IsEffect(kind) ==
    kind \in {"report", "save", "pose_export", "viz", "step", "zero_grad", "checkpoint"}

\* The per-iteration steps the loop owes iteration it, in the order of the code.
C13_Expected(it) ==
    <<"lr">>
    \o (IF args.optim_pose THEN <<>> ELSE <<"freeze">>)
    \o (IF it % SHInterval = 0 THEN <<"sh">> ELSE <<>>)
    \o <<"sample", "pose", "bg", "render", "loss", "backward", "ema">>

\* C13: in every iteration the steps learning-rate update, pose freeze (flag
\* false), SH escalation (multiple of 1000), view sampling, pose resolution,
\* background selection, render, loss, backward and loss-average update are
\* taken in that order, and all of them before any scheduled side effect.
C13_StepOrder ==
    LET core == SelectSeq(trace, C13_IsCore)
        exp == C13_Expected(iteration)
    IN /\ Len(core) <= Len(exp)
       /\ \A k \in DOMAIN core : core[k] = exp[k]
       /\ \A b \in DOMAIN trace :
            C13_IsEffect(trace[b]) =>
              /\ core = exp
              /\ \A a \in DOMAIN trace : C13_IsCore(trace[a]) => a < b
       /\ pc \in {"report", "save", "viz", "step", "checkpoint"} => core = exp

C13_Witness ==
    /\ pc = "loop"
    /\ In("sh", trace)
    /\ In("checkpoint", trace)
    /\ SelectSeq(trace, C13_IsCore) = C13_Expected(iteration)

\* The final iteration has run to its end.
C14_FinalDone ==
    /\ pc \in {"loop", "done"}
    /\ iteration = args.iterations
    /\ trace # <<>>

\* C14: whatever save list the user gave (empty, or holding the total, which
\* then appears twice), a run that executes its final iteration performs one
\* scene save and one pose export there, the export being pose_<total>.npy.
C14_FinalSaveOnce ==
    C14_FinalDone =>
      /\ Count(args.save_iterations, args.iterations) >= 1
      /\ Count(trace, "save") = 1
      /\ Count(trace, "pose_export") = 1
      /\ Count(events, <<"save", args.iterations>>) = 1
      /\ Count(events, <<"pose", args.iterations>>) = 1
      /\ args.iterations \in DOMAIN disk.scene
      /\ args.iterations \in DOMAIN disk.pose
      /\ disk.pose[args.iterations] = save_pose(gaussians.P, train_cameras)

C14_Witness ==
    /\ C14_FinalDone
    /\ Count(args.save_iterations, args.iterations) = 2
    /\ Count(trace, "save") = 1

C14_WitnessEmptyList ==
    /\ C14_FinalDone
    /\ args.save_iterations = <<args.iterations>>
    /\ Count(trace, "pose_export") = 1

\* What the optimizer trains on and the loop's own bookkeeping.
C15_TrainingState == <<gaussians, viewpoint_stack, viewpoint_cam, iteration, first_iter>>

\* Report, scene save with pose export, and point-cloud snapshot are steps of
\* the stages "report", "save" and "viz".
C15_SideEffectsFrame ==
    pc \in {"report", "save", "viz"} => C15_TrainingState' = C15_TrainingState

\* The gradients at the optimizer step are those of this iteration's backward.
C15_GradientsAtStep ==
    pc = "step" =>
      /\ gaussians.grad_xyz = <<SceneGrad(viewpoint_cam[1].uid)>>
      /\ gaussians.xyz = prev.params.xyz
      /\ gaussians.P = prev.params.P
      /\ gaussians.opt_step = prev.params.opt_step
      /\ gaussians.P_requires_grad =>
           gaussians.grad_P =
             <<[u \in AllUids |-> IF u = viewpoint_cam[1].uid THEN PoseGrad
                                  ELSE <<0, 0, 0>>]>>
      /\ ~gaussians.P_requires_grad => gaussians.grad_P = <<>>

\* C15: the report, the scene save with its pose export and the visual
\* snapshot leave parameters, gradients, optimizer state, SH degree, view
\* pool and counter as they found them, so the optimizer step applies the
\* gradients of this iteration's backward pass and nothing else.
C15_SideEffectsLeaveTraining == [](C15_GradientsAtStep) /\ [][C15_SideEffectsFrame]_vars

C15_Witness ==
    /\ pc = "step"
    /\ In("report", trace)
    /\ In("pose_export", trace)
    /\ In("viz", trace)
    /\ StepDue(iteration, args.iterations)
    /\ gaussians.grad_xyz # <<>>

\* The validation sweep of this iteration has run, over no held-out view.
C16_SweptWithoutTestSet == test_cameras = <<>> /\ In("report", trace)

\* C16: a validation sweep over an empty held-out set does not raise: the set
\* is skipped without a division by its size and without a metric, the
\* training set is still evaluated, and the cached device memory is released
\* once before and once after the sweep.
C16_EmptyTestSetIsSkipped ==
    /\ abort_cause # "report"
    /\ C16_SweptWithoutTestSet =>
         LET r == IndexOf(trace, "report")
             mine == SelectSeq(scalars, LAMBDA m : m.iteration = iteration)
         IN /\ Len(trace) >= r + 3
            /\ SubSeq(trace, r, r + 3) = <<"report", "empty_cache", "eval_train", "empty_cache">>
            /\ Count(trace, "empty_cache") = 2
            /\ Count(trace, "eval_test") = 0
            /\ Count(trace, "eval_train") = 1
            /\ Len(mine) = 1
            /\ mine[1].name = "train"
            /\ mine[1].views = NViews
            /\ mine[1].l1 = SumL1("train", train_cameras) \div NViews

C16_Witness ==
    /\ C16_SweptWithoutTestSet
    /\ pc = "loop"
    /\ Len(scalars) >= 1
    /\ Count(trace, "empty_cache") = 2

\* Iteration i has run to its end and was in both the save list and the
\* checkpoint list.
C17_SavedAndCheckpointed ==
    /\ pc = "loop"
    /\ In("pose_export", trace)
    /\ In("checkpoint", trace)

\* C17: when an iteration is in both lists, its scene snapshot and pose export
\* hold the parameters from before that iteration's optimizer step and its
\* raw checkpoint those after the step, gradients cleared; at the final
\* iteration, which does not step, all three hold the same parameters.
C17_SnapshotBeforeCheckpointAfter ==
    C17_SavedAndCheckpointed =>
      LET scene == disk.scene[iteration]
          exported == disk.pose[iteration]
          chk == disk.chkpnt[iteration]
      IN /\ scene.xyz = prev.params.xyz
         /\ exported = save_pose(prev.params.P, train_cameras)
         /\ chk.iteration = iteration
         /\ chk.model_params = Capture(gaussians)
         /\ iteration < args.iterations =>
              /\ chk.model_params.xyz = prev.params.xyz + SceneGrad(viewpoint_cam[1].uid)
              /\ chk.model_params.opt_step = prev.params.opt_step + 1
              /\ chk.model_params.xyz # scene.xyz
              /\ args.optim_pose =>
                   /\ chk.model_params.P # prev.params.P
                   /\ save_pose(chk.model_params.P, train_cameras) # exported
              /\ ~args.optim_pose => chk.model_params.P = prev.params.P
              /\ gaussians.grad_xyz = <<>>
              /\ gaussians.grad_P = <<>>
         /\ iteration = args.iterations =>
              /\ chk.model_params.xyz = scene.xyz
              /\ chk.model_params.P = prev.params.P
              /\ chk.model_params.opt_step = prev.params.opt_step
              /\ save_pose(chk.model_params.P, train_cameras) = exported

C17_Witness ==
    /\ C17_SavedAndCheckpointed
    /\ iteration < args.iterations
    /\ args.optim_pose
    /\ disk.chkpnt[iteration].model_params.xyz # disk.scene[iteration].xyz

C17_WitnessFinal ==
    /\ C17_SavedAndCheckpointed
    /\ iteration = args.iterations
    /\ iteration > 1
    /\ disk.chkpnt[iteration].model_params.xyz = disk.scene[iteration].xyz

\* The original ids of the training views cover 1..N, for N >= 1 views.
C18_IdsCover ==
    /\ NViews >= 1
    /\ \A i \in 1..NViews : \E k \in 1..NViews : cams[k].colmap_id = i

\* C18: save_pose succeeds only when the original ids of the training views
\* cover 1..N; with a value missing, or no view at all, it raises and writes
\* no file, and as the initial export comes before the loop the run ends with
\* no iteration, no optimizer step and no checkpoint.
C18_ExportNeedsAllIds ==
    /\ (pc # "start" /\ C18_IdsCover) =>
         /\ ~(pc = "aborted" /\ abort_cause = "save_pose")
         /\ Len(disk.pose_org) = NViews
    /\ ~C18_IdsCover =>
         /\ pc \in {"start", "aborted"}
         /\ pc = "aborted" => abort_cause = "save_pose"
         /\ disk = NoDisk
         /\ iteration = 0
         /\ n_step = 0
         /\ trace = <<>>
         /\ events = <<>>

C18_Witness ==
    /\ ~C18_IdsCover
    /\ NViews >= 1
    /\ pc = "aborted"
    /\ abort_cause = "save_pose"
    /\ disk.pose_org = <<>>

C18_WitnessNoView ==
    /\ NViews = 0
    /\ pc = "aborted"
    /\ abort_cause = "save_pose"

C18_WitnessCovered ==
    /\ C18_IdsCover
    /\ NViews = MaxViews
    /\ pc = "done"
    /\ Len(disk.pose_org) = NViews

====
